---- MODULE Spec2Model ----
(***************************************************************************)
(* Model of the IndiaMART product agent console (web/src/app/page.tsx):    *)
(* the Home component's queue runner.  One action is one event handler,    *)
(* fetch continuation or timer callback, together with the React commit    *)
(* it causes: the ref-sync effects (lines 130-140) followed by the two     *)
(* drain effects (lines 316-329), which run in declaration order against   *)
(* the refs of that commit.                                                *)
(***************************************************************************)
EXTENDS Integers, Sequences, FiniteSets, Bags, TLC

(* ------------------------------ bounds --------------------------------- *)
MaxItems == 2      \* products ever enqueued
MaxCalls == 3      \* fetch("/api/indiamart") calls ever issued
MaxLogs == 7       \* entries in the activity log
MaxCsvRows == 2    \* data rows in one imported CSV file
MaxList == 2       \* entries of a product's features and of its keywords
MaxImages == 4     \* entries of a product's imageUrls
MaxCellLen == 3    \* characters of a cell of a CSV line read on its own
MaxRawLen == 4     \* characters of a raw list field handed to normalizeProduct
MaxAppends == 52   \* entries appended to the activity log kept as a list
MaxSameMs == 1     \* appends that read the clock value of the append before

(* ------------------------------ values --------------------------------- *)
NoId == 0                          \* activeProductId === null
Titles == {"", "a"}                \* values of ProductDraft.title
Categories == {"", "c"}            \* values of ProductDraft.category
Modes == {"simulate", "live"}      \* AgentMode
Outcomes == {"ok", "rejected", "throws"}   \* how an awaited fetch ends
CsvHeaders == {"none", "missing", "ok"}    \* header line of an imported file

initialDraft == [title |-> "", category |-> ""]
defaultSettings == [mode |-> "simulate", autoStart |-> TRUE]

VARIABLES
  settings,          \* useState settings (mode, autoStart)
  draft,             \* useState draft
  queue,             \* useState queue: sequence of [id, title]
  processing,        \* useState processing
  activeProductId,   \* useState activeProductId
  logs,              \* useState logs, as the bag of its entries; as the list
                     \* itself where the display is modelled (SpecLog)
  queueRef,          \* useRef mirrors, written by the sync effects
  processingRef,
  activeProductRef,
  calls,             \* every fetch issued, in order: [id, mode, st],
                     \* st "pending" until the awaited promise settles
  timers,            \* pending setTimeout callbacks, named by their call
  nextId,            \* makeId: next unused id (ids in enqueue order)
  phase,             \* "enq": the handlers run so far are enqueues and
                     \* settings edits; "started": followed by one start()
  pause,             \* since the last stop() that found a call in flight and
                     \* until the next start(): ids of those calls' items, the
                     \* number n of calls issued by then, and whether an
                     \* addToQueue has called setProcessing(true) since
  stoppedCalls,      \* calls that were in flight at some stop()
  csv,               \* the CSV text handed to the parser, what it was written
                     \* from, and what the parser made of it
  api                \* the route handler POST of /api/indiamart serving one
                     \* request: the request, where the handler stands, the
                     \* remote calls it has issued and its response

vars == <<settings, draft, queue, processing, activeProductId, logs,
          queueRef, processingRef, activeProductRef, calls, timers, nextId,
          phase, pause, stoppedCalls, csv, api>>

\* the variables of the console, and those its handlers leave alone
runnerVars == <<settings, draft, queue, processing, activeProductId, logs,
                queueRef, processingRef, activeProductRef, calls, timers,
                nextId, phase, pause, stoppedCalls>>
pureVars == <<csv, api>>

(* ------------------------------ helpers -------------------------------- *)
Entry(level, headline, item) ==
  [level |-> level, headline |-> headline, item |-> item]

\* appendLog: setLogs(prev => [...prev, entry]).  Nothing in the component
\* but the display reads the log, so it is kept up to the order of entries.
appendLog(l, entry) == l (+) SetToBag({entry})


Pending == {i \in DOMAIN calls : calls[i].st = "pending"}

\* setQueue(prev => [...prev, payload])
Enqueue(q, item) == Append(q, item)

\* const [next] = queueRef.current
NextOfMutLast(q) == q[Len(q)]
NextOf(q) == Head(q)

\* setQueue(prev => prev.filter(item => item.id !== next.id))
RemoveByIdMutHead(q, id) == IF q = <<>> THEN q ELSE Tail(q)
RemoveById(q, id) == SelectSeq(q, LAMBDA item : item.id # id)

\* the two early returns of processNextProduct
PNPGuard(pRef, aRef) == pRef /\ aRef = NoId

\* processNextProduct up to the first await, run against the refs
\* (pRef, aRef, qRef) and applied to the pending React state st.
PNPMutNoComplete(st, pRef, aRef, qRef, mode) ==
  IF ~PNPGuard(pRef, aRef) \/ Len(qRef) = 0 THEN st
  ELSE LET next == NextOf(qRef) IN
       [st EXCEPT !.active = next.id,
                  !.logs = appendLog(@, Entry("info", "Processing", next.id)),
                  !.calls = Append(@, [id |-> next.id, mode |-> mode,
                                       st |-> "pending"])]
PNP(st, pRef, aRef, qRef, mode) ==
  IF ~PNPGuard(pRef, aRef) THEN st
  ELSE IF Len(qRef) = 0
    THEN [st EXCEPT !.processing = FALSE,
                    !.logs = appendLog(@, Entry("success", "Queue complete", NoId))]
    ELSE LET next == NextOf(qRef) IN
         [st EXCEPT !.active = next.id,
                    !.logs = appendLog(@, Entry("info", "Processing", next.id)),
                    !.calls = Append(@, [id |-> next.id, mode |-> mode,
                                         st |-> "pending"])]

\* useEffect(..., [processing, processNextProduct])
Effect1(st, fires, proc, pRef, aRef, qRef, mode) ==
  IF fires /\ proc THEN PNP(st, pRef, aRef, qRef, mode) ELSE st

\* useEffect(..., [queue, processNextProduct])
Effect2SkipMutAlways(pRef, aRef) == TRUE
Effect2Skip(pRef, aRef) == ~pRef \/ aRef # NoId
Effect2(st, fires, pRef, aRef, qRef, mode) ==
  IF ~fires \/ Effect2Skip(pRef, aRef) THEN st
  ELSE IF Len(qRef) > 0 THEN PNP(st, pRef, aRef, qRef, mode) ELSE st

\* line 279: the settings in the request body are those of the render whose
\* processNextProduct runs
BodyModeMutDefault(s) == defaultSettings.mode
BodyMode(s) == s.mode

\* The commit that follows a batch of state updates: st is the state the
\* updates produce, s the settings of the new render; queueChanged tells
\* whether setQueue produced a new array, pnpChanged whether settings (and
\* with it processNextProduct) was replaced.
Commit(st, s, queueChanged, pnpChanged) ==
  LET pRef == st.processing
      aRef == st.active
      qRef == st.queue
      e1 == Effect1(st, (st.processing # processing) \/ pnpChanged,
                    st.processing, pRef, aRef, qRef, BodyMode(s))
  IN Effect2(e1, queueChanged \/ pnpChanged, pRef, aRef, qRef, BodyMode(s))

Cur == [queue |-> queue, processing |-> processing, active |-> activeProductId,
        logs |-> logs, calls |-> calls]

\* install the committed state; the sync effects of the following render
\* copy it into the refs
Install(st) ==
  /\ BagCardinality(st.logs) <= MaxLogs
  /\ Len(st.calls) <= MaxCalls
  /\ queue' = st.queue
  /\ processing' = st.processing
  /\ activeProductId' = st.active
  /\ logs' = st.logs
  /\ calls' = st.calls
  /\ queueRef' = st.queue
  /\ processingRef' = st.processing
  /\ activeProductRef' = st.active

(* ------------------- the route handler (web/README.md) ----------------- *)
\* A JSON object is a function from the keys it has; a key it lacks reads
\* as undefined.
Has(o, key) == key \in DOMAIN o
Opt(key, vals) == {<<>>} \cup {key :> v : v \in vals}
\* o.key ?? dflt
OrElse(o, key, dflt) == IF Has(o, key) THEN o[key] ELSE dflt

\* Array.prototype.join
RECURSIVE Join(_, _)
Join(xs, sep) ==
  IF Len(xs) = 0 THEN ""
  ELSE IF Len(xs) = 1 THEN xs[1]
  ELSE xs[1] \o sep \o Join(Tail(xs), sep)

\* String.prototype.trim on the strings of ApiStrings
Trim(str) == IF str = " " THEN "" ELSE IF str = " k " THEN "k" ELSE str

MINIMUM_FIELDS == <<"title", "description", "shortDescription">>

\* product.imageUrls?.[n - 1] ?? ""
ImageAtMutNext(product, n) ==
  IF Has(product, "imageUrls") /\ n + 1 <= Len(product.imageUrls)
  THEN product.imageUrls[n + 1] ELSE ""
ImageAt(product, n) ==
  IF Has(product, "imageUrls") /\ n <= Len(product.imageUrls)
  THEN product.imageUrls[n] ELSE ""

buildIndiaMartPayload(product, s) ==
  LET featuresText == IF Has(product, "features")
                      THEN Join(product.features, "|") ELSE ""
  IN [PRODUCT_NAME |-> product.title,
      SELLER_ID |-> OrElse(s, "sellerId", ""),
      CURRENCY_TYPE |-> OrElse(product, "currency", "INR"),
      YOUR_PRICE |-> OrElse(product, "price", ""),
      UNIT |-> OrElse(product, "unit", ""),
      MIN_ORDER_QUANTITY |-> OrElse(product, "minOrderQty", ""),
      PACKAGE_DETAILS |-> OrElse(product, "packaging", ""),
      SUPPLY_ABILITY |-> OrElse(product, "stock", ""),
      DELIVERY_TIME |-> OrElse(product, "leadTime", ""),
      SHORT_DESC |-> OrElse(product, "shortDescription", ""),
      LONG_DESC |-> OrElse(product, "description", ""),
      KEY_FEATURES |-> featuresText,
      KEYWORDS |-> IF Has(product, "keywords")
                   THEN Join(product.keywords, ",") ELSE "",
      IMAGE1 |-> ImageAt(product, 1),
      IMAGE2 |-> ImageAt(product, 2),
      IMAGE3 |-> ImageAt(product, 3),
      CATEGORY |-> OrElse(product, "category", "")]

\* lines 123-126
IsMissingMutUndefinedOnly(product, field) == ~Has(product, field)
IsMissing(product, field) == ~Has(product, field) \/ product[field] = ""
missingFields(product) ==
  SelectSeq(MINIMUM_FIELDS, LAMBDA field : IsMissing(product, field))

\* lines 137-142; a key of settings that is absent stays undefined
normalizedSettings(body) ==
  LET st == OrElse(body, "settings", <<>>)
      trimmed(key) == IF Has(st, key) THEN key :> Trim(st[key]) ELSE <<>>
  IN trimmed("apiKey") @@ trimmed("sellerId") @@ trimmed("baseUrl")
       @@ ("mode" :> OrElse(st, "mode", "simulate"))

\* line 146: normalizedSettings.mode === "simulate"
IsSimulateMutNever(ns) == FALSE
IsSimulate(ns) == ns.mode = "simulate"

\* !normalizedSettings.apiKey, !normalizedSettings.sellerId
FalsyMutUndefinedOnly(o, key) == ~Has(o, key)
Falsy(o, key) == ~Has(o, key) \/ o[key] = ""

DefaultEndpoint == "https://sellerapi.indiamart.com/catalog/v1/product/add"

\* the requests served: bodies whose required fields and settings vary,
\* and valid bodies whose list fields vary
ApiStrings == {"", " ", "k"}
Names(letters) == UNION {[1..n -> letters] : n \in 0..MaxList}
Urls == [n \in 1..MaxImages |-> "u" \o ToString(n)]
Reverse(xs) == [n \in 1..Len(xs) |-> xs[Len(xs) + 1 - n]]
ImageLists == {SubSeq(Urls, 1, n) : n \in 0..MaxImages}
                \cup {Reverse(SubSeq(Urls, 1, n)) : n \in 2..MaxImages}
SettingsCases ==
  {m @@ a @@ sl @@ b : m \in Opt("mode", Modes), a \in Opt("apiKey", ApiStrings),
                       sl \in Opt("sellerId", ApiStrings), b \in Opt("baseUrl", {"", "u"})}
FieldCases ==
  {t @@ d @@ sd : t \in Opt("title", {"", "x"}), d \in Opt("description", {"", "y"}),
                  sd \in Opt("shortDescription", {"", "z"})}
ValidFields == [title |-> "x", description |-> "y", shortDescription |-> "z"]
ListCases ==
  {ValidFields @@ f @@ k @@ i :
     f \in Opt("features", Names({"f", "g"})),
     k \in Opt("keywords", Names({"k", "w"})),
     i \in Opt("imageUrls", ImageLists)}
LiveSettings == [mode |-> "live", apiKey |-> " k ", sellerId |-> "k"]
Bodies ==
  {<<>>, "settings" :> LiveSettings}
    \cup {("product" :> p) @@ st : p \in FieldCases,
            st \in {<<>>} \cup {"settings" :> x : x \in SettingsCases}}
    \cup {("product" :> p) @@ st : p \in ListCases,
            st \in {<<>>, "settings" :> LiveSettings}}
Requests == {[json |-> FALSE, body |-> <<>>]} \cup [json : {TRUE}, body : Bodies]

\* what the remote API answers to fetch: a response (its status, whether
\* its content-type includes application/json, whether its text parses as
\* JSON), or a rejected promise
RemoteAnswers ==
  [kind : {"response"}, status : {200, 204, 400, 500}, jsonType : BOOLEAN,
   parses : BOOLEAN, text : {"b"}]
    \cup {[kind |-> "failure", message |-> "fetch failed"]}

Respond(status, body) == [status |-> status, body |-> body]
NoResponse == Respond(0, <<>>)
ApiIdle == [pc |-> "idle", req |-> [json |-> FALSE, body |-> <<>>],
            sent |-> <<>>, remote |-> <<>>, resp |-> NoResponse]

(* ----------------------- CSV import (page.tsx) -------------------------- *)
\* In this part a string is the sequence of its characters.
Quote == "\""
Comma == ","
NewLine == "\n"
Return == "\r"
WhiteSpace == {" ", "\t", NewLine, Return}

\* splitCsvLine.  Turn is one turn of the for loop at index (counted from
\* 1): skip says that the turn before advanced index past this character;
\* cells are the values the turn completes followed by what it adds to
\* current.  Turns runs the turns lo..hi in order, by halves.
Turn(line, index, insideQuotes, skip) ==
  LET character == line[index]
      out(inside, skipNext, cells) ==
        [insideQuotes |-> inside, skip |-> skipNext, cells |-> cells]
  IN IF skip THEN out(insideQuotes, FALSE, << <<>> >>)
     ELSE IF character = Quote
       THEN IF insideQuotes /\ index + 1 <= Len(line) /\ line[index + 1] = Quote
              THEN out(insideQuotes, TRUE, << <<Quote>> >>)
              ELSE out(~insideQuotes, FALSE, << <<>> >>)
     ELSE IF character = Comma /\ ~insideQuotes
       THEN out(insideQuotes, FALSE, << <<>>, <<>> >>)
     ELSE out(insideQuotes, FALSE, << <<character>> >>)

RECURSIVE Turns(_, _, _, _, _)
Turns(line, lo, hi, insideQuotes, skip) ==
  IF lo = hi THEN Turn(line, lo, insideQuotes, skip)
  ELSE LET mid == (lo + hi) \div 2
           a == Turns(line, lo, mid, insideQuotes, skip)
           b == Turns(line, mid + 1, hi, a.insideQuotes, a.skip)
       IN CASE Len(a.cells) > 0 /\ Len(b.cells) > 0 ->
            [insideQuotes |-> b.insideQuotes, skip |-> b.skip,
             cells |-> SubSeq(a.cells, 1, Len(a.cells) - 1)
                         \o <<a.cells[Len(a.cells)] \o b.cells[1]>>
                         \o Tail(b.cells)]

splitCsvLine(line) ==
  IF line = <<>> THEN << <<>> >>
  ELSE Turns(line, 1, Len(line), FALSE, FALSE).cells

\* String.prototype.trim
RECURSIVE TrimStart(_)
TrimStart(str) ==
  IF str # <<>> /\ Head(str) \in WhiteSpace THEN TrimStart(Tail(str)) ELSE str
RECURSIVE TrimEnd(_)
TrimEnd(str) ==
  IF str # <<>> /\ str[Len(str)] \in WhiteSpace
  THEN TrimEnd(SubSeq(str, 1, Len(str) - 1)) ELSE str
trim(str) == TrimEnd(TrimStart(str))

\* replace(/""/g, '"')
RECURSIVE UndoubleQuotes(_)
UndoubleQuotes(str) ==
  IF Len(str) = 0 THEN <<>>
  ELSE IF Len(str) >= 2 /\ str[1] = Quote /\ str[2] = Quote
    THEN <<Quote>> \o UndoubleQuotes(SubSeq(str, 3, Len(str)))
  ELSE <<str[1]>> \o UndoubleQuotes(Tail(str))

\* line 86: trimmed.startsWith('"') && trimmed.endsWith('"')
IsQuotedMutNever(trimmed) == FALSE
IsQuoted(trimmed) ==
  trimmed # <<>> /\ Head(trimmed) = Quote /\ trimmed[Len(trimmed)] = Quote

cleanCell(value) ==
  LET trimmed == trim(value)
  IN IF IsQuoted(trimmed)
     THEN UndoubleQuotes(SubSeq(trimmed, 2, Len(trimmed) - 1))
     ELSE trimmed

\* String.prototype.toLowerCase, on ASCII letters
UpperCase == <<"A", "B", "C", "D", "E", "F", "G", "H", "I", "J", "K", "L", "M", "N", "O", "P", "Q", "R", "S", "T", "U", "V", "W", "X", "Y", "Z">>
LowerCase == <<"a", "b", "c", "d", "e", "f", "g", "h", "i", "j", "k", "l", "m", "n", "o", "p", "q", "r", "s", "t", "u", "v", "w", "x", "y", "z">>
toLowerCase(str) ==
  [n \in 1..Len(str) |->
     IF \E k \in 1..26 : UpperCase[k] = str[n]
     THEN LowerCase[CHOOSE k \in 1..26 : UpperCase[k] = str[n]]
     ELSE str[n]]

\* replace(/\s+/g, "")
removeSpaces(str) == SelectSeq(str, LAMBDA c : c \notin WhiteSpace)

\* String.prototype.split on a one-character separator
RECURSIVE split(_, _)
split(str, sep) ==
  IF \A n \in 1..Len(str) : str[n] # sep THEN <<str>>
  ELSE LET first == CHOOSE n \in 1..Len(str) :
                      str[n] = sep /\ \A m \in 1..(n - 1) : str[m] # sep
       IN <<SubSeq(str, 1, first - 1)>>
            \o split(SubSeq(str, first + 1, Len(str)), sep)

\* text.split(/\r?\n/): a return right before a newline goes with it
splitLines(text) ==
  LET pieces == split(text, NewLine)
  IN [n \in 1..Len(pieces) |->
        IF n < Len(pieces) /\ pieces[n] # <<>>
             /\ pieces[n][Len(pieces[n])] = Return
        THEN SubSeq(pieces[n], 1, Len(pieces[n]) - 1)
        ELSE pieces[n]]

Map(xs, Op(_)) == [n \in 1..Len(xs) |-> Op(xs[n])]
NonEmptyOnly(xs) == SelectSeq(xs, LAMBDA x : x # <<>>)
\* Array.prototype.indexOf, counted from 1; 0 when absent
indexOf(xs, x) ==
  IF \E n \in 1..Len(xs) : xs[n] = x
  THEN CHOOSE n \in 1..Len(xs) : xs[n] = x /\ \A m \in 1..(n - 1) : xs[m] # x
  ELSE 0

\* lines 391-406
expected ==
  <<<<"t", "i", "t", "l", "e">>,
    <<"c", "a", "t", "e", "g", "o", "r", "y">>,
    <<"p", "r", "i", "c", "e">>,
    <<"c", "u", "r", "r", "e", "n", "c", "y">>,
    <<"u", "n", "i", "t">>,
    <<"s", "t", "o", "c", "k">>,
    <<"m", "i", "n", "o", "r", "d", "e", "r", "q", "t", "y">>,
    <<"k", "e", "y", "w", "o", "r", "d", "s">>,
    <<"i", "m", "a", "g", "e", "u", "r", "l", "s">>,
    <<"s", "h", "o", "r", "t", "d", "e", "s", "c", "r", "i", "p", "t", "i", "o", "n">>,
    <<"d", "e", "s", "c", "r", "i", "p", "t", "i", "o", "n">>,
    <<"f", "e", "a", "t", "u", "r", "e", "s">>,
    <<"p", "a", "c", "k", "a", "g", "i", "n", "g">>,
    <<"l", "e", "a", "d", "t", "i", "m", "e">>>>

INR == <<"I", "N", "R">>
Unit == <<"U", "n", "i", "t">>

\* lines 418-424
getValueMutByPosition(headers, row, column) ==
  LET index == indexOf(expected, column)
  IN IF index <= Len(row) THEN row[index] ELSE <<>>
getValue(headers, row, column) ==
  LET index == indexOf(headers, column)
  IN IF index = 0 THEN <<>>
     ELSE IF index <= Len(row) THEN row[index] ELSE <<>>

\* value || dflt
OrDefaultMutNever(value, dflt) == value
OrDefault(value, dflt) == IF value = <<>> THEN dflt ELSE value

\* lines 426-444: the ProductDraft of one row line
rowProduct(headers, rowLine) ==
  LET cells == Map(splitCsvLine(rowLine), cleanCell)
      v(column) == getValue(headers, cells, expected[column])
  IN [title |-> v(1), category |-> v(2), price |-> v(3),
      currency |-> OrDefault(v(4), INR), unit |-> OrDefault(v(5), Unit),
      stock |-> v(6), minOrderQty |-> v(7), keywords |-> v(8),
      imageUrls |-> v(9), shortDescription |-> v(10), description |-> v(11),
      features |-> v(12), packaging |-> v(13), leadTime |-> v(14)]

\* line 408: [...expected].filter((key) => !headers.includes(key))
missingColumnsMutFirst(headers) ==
  LET m == SelectSeq(expected, LAMBDA key : indexOf(headers, key) = 0)
  IN IF m = <<>> THEN m ELSE <<m[1]>>
missingColumns(headers) ==
  SelectSeq(expected, LAMBDA key : indexOf(headers, key) = 0)

\* parseCsvFile up to its calls of addToQueue and appendLog: what the text
\* of the file amounts to
parseCsvText(text) ==
  LET lines == NonEmptyOnly(Map(splitLines(text), trim))
  IN IF lines = <<>>
       THEN [header |-> "none", missing |-> <<>>, products |-> <<>>]
     ELSE
       LET headers == Map(splitCsvLine(lines[1]),
                          LAMBDA column : removeSpaces(toLowerCase(cleanCell(column))))
           missing == missingColumns(headers)
       IN IF missing # <<>>
            THEN [header |-> "missing", missing |-> missing, products |-> <<>>]
          ELSE [header |-> "ok", missing |-> <<>>,
                products |-> [n \in 1..(Len(lines) - 1) |->
                                rowProduct(headers, lines[n + 1])]]

\* normalizeProduct; lines 196-209: split, map(trim), filter(Boolean)
splitTrimmedMutKeepEmpty(str, sep) == Map(split(str, sep), trim)
splitTrimmed(str, sep) == NonEmptyOnly(Map(split(str, sep), trim))
normalizeProduct(product) ==
  [product EXCEPT !.features = splitTrimmed(@, NewLine),
                  !.imageUrls = splitTrimmed(@, NewLine),
                  !.keywords = splitTrimmed(@, Comma)]

\* no file chosen yet
CsvIdle == [op |-> "idle"]

(* ------------------------------- Init ---------------------------------- *)
RunnerInit ==
  /\ settings = defaultSettings
  /\ draft = initialDraft
  /\ queue = <<>>
  /\ processing = FALSE
  /\ activeProductId = NoId
  /\ logs = EmptyBag
  /\ queueRef = <<>>
  /\ processingRef = FALSE
  /\ activeProductRef = NoId
  /\ calls = <<>>
  /\ timers = {}
  /\ nextId = 1
  /\ phase = "enq"
  /\ pause = [on |-> FALSE, auto |-> FALSE, n |-> 0, ids |-> {}]
  /\ stoppedCalls = {}

Init == RunnerInit /\ csv = CsvIdle /\ api = ApiIdle

(* ------------------------------ actions -------------------------------- *)
\* line 178: settings.autoStart && !processingRef.current
AutoStarts(s, pRef) == s.autoStart /\ ~pRef

\* addToQueue(product), for each product of ps in turn; the k-th one gets
\* the id first + k - 1.  All calls read the same processingRef.
RECURSIVE addToQueue(_, _, _, _, _)
addToQueue(st, ps, first, s, pRef) ==
  IF ps = <<>> THEN st
  ELSE LET item == [id |-> first, title |-> Head(ps).title]
           st1 == [st EXCEPT
                     !.queue = Enqueue(@, item),
                     !.logs = appendLog(@, Entry("info", "Product queued", first)),
                     !.processing = IF AutoStarts(s, pRef) THEN TRUE ELSE @]
       IN addToQueue(st1, Tail(ps), first + 1, s, pRef)

NextPhaseEnqueue == IF phase = "enq" THEN "enq" ELSE "other"
NextPauseEnqueue(n) ==
  IF pause.on /\ n > 0 /\ AutoStarts(settings, processingRef)
  THEN [pause EXCEPT !.auto = TRUE] ELSE pause

\* line 334: if (!draft.title)
TitleMissingMutNever(d) == FALSE
TitleMissing(d) == d.title = ""

handleAddDraftToQueue ==
  /\ IF TitleMissing(draft)
     THEN /\ Install(Commit([Cur EXCEPT !.logs =
                 appendLog(@, Entry("error", "Missing product name", NoId))],
                 settings, FALSE, FALSE))
          /\ phase' = "other"
          /\ UNCHANGED <<draft, nextId, pause>>
     ELSE /\ nextId <= MaxItems
          /\ Install(Commit(addToQueue(Cur, <<draft>>, nextId, settings,
                                       processingRef),
                            settings, TRUE, FALSE))
          /\ draft' = initialDraft
          /\ nextId' = nextId + 1
          /\ phase' = NextPhaseEnqueue
          /\ pause' = NextPauseEnqueue(1)
  /\ UNCHANGED <<settings, timers, stoppedCalls>>
  /\ UNCHANGED pureVars

\* parseCsvFile: header is what the header line amounts to ("missing": it
\* lacks leadtime), rows the title cell of each non-blank data line.
RowSeqs == UNION {[1..n -> Titles] : n \in 0..MaxCsvRows}

\* lines 409-414: the entry's details list the missing columns
MismatchEntry(missing) ==
  Entry("error", "CSV headers mismatch", NoId) @@ [details |-> missing]

\* the part of parseCsvFile that follows the reading of the text: missing
\* are the columns the header lacks, ps the products of the data rows
parseCsvRun(header, missing, ps) ==
  /\ header # "ok" => ps = <<>>
  /\ nextId + Len(ps) <= MaxItems + 1
  /\ LET st == IF header = "none"
                 THEN [Cur EXCEPT !.logs =
                         appendLog(@, Entry("error", "Empty CSV", NoId))]
               ELSE IF header = "missing"
                 THEN [Cur EXCEPT !.logs =
                         appendLog(@, MismatchEntry(missing))]
               ELSE LET a == addToQueue(Cur, ps, nextId, settings, processingRef)
                    IN [a EXCEPT !.logs =
                          appendLog(@, Entry("success", "CSV imported", NoId))]
     IN Install(Commit(st, settings, Len(ps) > 0, FALSE))
  /\ nextId' = nextId + Len(ps)
  /\ phase' = IF header = "ok" THEN NextPhaseEnqueue ELSE "other"
  /\ pause' = NextPauseEnqueue(Len(ps))
  /\ UNCHANGED <<settings, draft, timers, stoppedCalls>>

parseCsvFile(header, rows) ==
  /\ parseCsvRun(header, IF header = "missing" THEN <<expected[14]>> ELSE <<>>,
                 [k \in 1..Len(rows) |-> [title |-> rows[k], category |-> ""]])
  /\ UNCHANGED pureVars

\* handleDraftChange(key)(event)
handleDraftChange(key, value) ==
  /\ draft[key] # value
  /\ draft' = [draft EXCEPT ![key] = value]
  /\ UNCHANGED <<settings, queue, processing, activeProductId, logs, queueRef,
                 processingRef, activeProductRef, calls, timers, nextId,
                 phase, pause, stoppedCalls>>
  /\ UNCHANGED pureVars

\* setSettings(prev => ({...prev, ...})): always a new settings object, so
\* processNextProduct is re-created and both drain effects run again;
\* writing a field its current value stands for an edit of apiKey, sellerId
\* or baseUrl, which the runner never reads.
setSettings(key, value) ==
  /\ settings' = [settings EXCEPT ![key] = value]
  /\ Install(Commit(Cur, settings', FALSE, TRUE))
  /\ UNCHANGED <<draft, timers, nextId, phase, pause, stoppedCalls>>
  /\ UNCHANGED pureVars

\* runAgent
RunAgentBranchMutNoGuard(pRef, qRef) ==
  IF Len(qRef) = 0 THEN "empty" ELSE "start"
RunAgentBranch(pRef, qRef) ==
  IF pRef THEN "return"
  ELSE IF Len(qRef) = 0 THEN "empty" ELSE "start"

runAgent ==
  /\ LET b == RunAgentBranch(processingRef, queueRef)
         st == IF b = "return" THEN Cur
               ELSE IF b = "empty"
                 THEN [Cur EXCEPT !.logs =
                         appendLog(@, Entry("info", "Queue empty", NoId))]
               ELSE [Cur EXCEPT !.processing = TRUE]
     IN Install(Commit(st, settings, FALSE, FALSE))
  /\ phase' = IF phase = "enq" THEN "started" ELSE "other"
  /\ pause' = [on |-> FALSE, auto |-> FALSE, n |-> 0, ids |-> {}]
  /\ UNCHANGED <<settings, draft, timers, nextId, stoppedCalls>>
  /\ UNCHANGED pureVars

\* stopAgent; line 235: setProcessing(false)
StopProcessingMutKeep(proc) == proc
StopProcessing(proc) == FALSE
\* line 236: setActiveProductId(null)
StopActiveMutKeep(active) == active
StopActive(active) == NoId

stopAgent ==
  /\ Install(Commit([Cur EXCEPT
                       !.processing = StopProcessing(@),
                       !.active = StopActive(@),
                       !.logs = appendLog(@, Entry("info", "Agent paused", NoId))],
                    settings, FALSE, FALSE))
  /\ phase' = "other"
  /\ pause' = IF Pending # {}
              THEN [on |-> TRUE, auto |-> FALSE, n |-> Len(calls),
                    ids |-> {calls[i].id : i \in Pending}]
              ELSE pause
  /\ stoppedCalls' = stoppedCalls \cup Pending
  /\ UNCHANGED <<settings, draft, timers, nextId>>
  /\ UNCHANGED pureVars

\* lines 285-304: which entry the try block or the catch block appends
TerminalEntryMutSuccess(outcome, id) == Entry("success", "Uploaded", id)
TerminalEntry(outcome, id) ==
  IF outcome = "ok" THEN Entry("success", "Uploaded", id)
  ELSE Entry("error", "Failed", id)

\* the continuation of processNextProduct after its awaits, for call i
complete(i, outcome) ==
  /\ i \in Pending
  /\ LET id == calls[i].id
         st == [Cur EXCEPT
                  !.logs = appendLog(@, TerminalEntry(outcome, id)),
                  !.queue = RemoveById(@, id),
                  !.active = NoId,
                  !.calls[i].st = "settled"]
     IN Install(Commit(st, settings, TRUE, FALSE))
  /\ timers' = timers \cup {i}
  /\ UNCHANGED <<settings, draft, nextId, phase, pause, stoppedCalls>>
  /\ UNCHANGED pureVars

\* the setTimeout callback of call i; its processNextProduct is the one of
\* the render that issued call i, hence reads that render's settings
timerFires(i) ==
  /\ i \in timers
  /\ timers' = timers \ {i}
  /\ LET st == IF processingRef
               THEN PNP(Cur, processingRef, activeProductRef, queueRef,
                        calls[i].mode)
               ELSE Cur
     IN Install(Commit(st, settings, FALSE, FALSE))
  /\ UNCHANGED <<settings, draft, nextId, phase, pause, stoppedCalls>>
  /\ UNCHANGED pureVars

\* Every settings edit replaces the settings object; the edits of Next are
\* those of autoStart, the one field the queue handlers read.
Next ==
  \/ handleAddDraftToQueue
  \/ \E h \in CsvHeaders, rows \in RowSeqs : parseCsvFile(h, rows)
  \/ \E t \in Titles : handleDraftChange("title", t)
  \/ \E c \in Categories : handleDraftChange("category", c)
  \/ \E b \in BOOLEAN : setSettings("autoStart", b)
  \/ runAgent
  \/ stopAgent
  \/ \E i \in DOMAIN calls, o \in Outcomes : complete(i, o)
  \/ \E i \in DOMAIN calls : timerFires(i)

Spec == Init /\ [][Next]_vars

\* The console with the Simulate / Live buttons in use as well (lines
\* 734-760); the draft's category, which no handler of the runner reads, is
\* left as it is.
NextMode ==
  \/ handleAddDraftToQueue
  \/ \E h \in CsvHeaders, rows \in RowSeqs : parseCsvFile(h, rows)
  \/ \E t \in Titles : handleDraftChange("title", t)
  \/ \E b \in BOOLEAN : setSettings("autoStart", b)
  \/ \E m \in Modes : setSettings("mode", m)
  \/ runAgent
  \/ stopAgent
  \/ \E i \in DOMAIN calls, o \in Outcomes : complete(i, o)
  \/ \E i \in DOMAIN calls : timerFires(i)

SpecMode == Init /\ [][NextMode]_vars

\* The console with its timers firing: a callback handed to setTimeout
\* (line 308) is run by the event loop once its 600 ms have passed.
SpecFair ==
  /\ Init /\ [][Next]_vars
  /\ \A i \in 1..MaxCalls : WF_vars(timerFires(i))

(* ----------------------------- CSV import ------------------------------- *)
\* The files imported.  A file is written from the indices (into expected)
\* of the columns its header has, in ascending or descending order, and from
\* the title of each data row, the other cells being empty; a decorated file
\* has its header names quoted, partly in capitals and with spaces, and its
\* lines ended by a return and a newline.  The files of CsvFiles are plain
\* with ascending columns, or decorated with descending columns.
RECURSIVE JoinChars(_, _)
JoinChars(xs, sep) ==
  IF Len(xs) = 0 THEN <<>>
  ELSE IF Len(xs) = 1 THEN xs[1]
  ELSE xs[1] \o <<sep>> \o JoinChars(Tail(xs), sep)
toUpperCase(str) ==
  [n \in 1..Len(str) |->
     IF \E k \in 1..26 : LowerCase[k] = str[n]
     THEN UpperCase[CHOOSE k \in 1..26 : LowerCase[k] = str[n]]
     ELSE str[n]]
DoubleQuotes(str) ==
  IF str = <<>> THEN <<>>
  ELSE JoinChars([n \in 1..Len(str) |->
                    IF str[n] = Quote THEN <<Quote, Quote>> ELSE <<str[n]>>], "")
QuotedField(str) ==
  <<Quote>> \o SelectSeq(DoubleQuotes(str), LAMBDA c : c # "") \o <<Quote>>
DecoratedName(name) ==
  <<" ", Quote>> \o toUpperCase(<<name[1]>>) \o <<" ">> \o Tail(name)
    \o <<Quote, " ">>
\* the sets of columns a header may lack: title, leadtime, both, or all
\* but category
DropSets == (SUBSET {1, 14}) \cup {(1..14) \ {2}}
ColumnsOf(file) ==
  LET kept == SelectSeq([n \in 1..14 |-> n], LAMBDA n : n \notin file.drop)
  IN IF file.reversed THEN Reverse(kept) ELSE kept
HeaderLineOf(file) ==
  JoinChars([n \in 1..Len(ColumnsOf(file)) |->
               IF file.decorated THEN DecoratedName(expected[ColumnsOf(file)[n]])
               ELSE expected[ColumnsOf(file)[n]]], Comma)
RowLineOf(file, title) ==
  JoinChars([n \in 1..Len(ColumnsOf(file)) |->
               IF ColumnsOf(file)[n] = 1 THEN QuotedField(title) ELSE <<>>], Comma)
LineEnd(file) == IF file.decorated THEN <<Return, NewLine>> ELSE <<NewLine>>
RECURSIVE RowsTextOf(_, _)
RowsTextOf(file, titles) ==
  IF titles = <<>> THEN <<>>
  ELSE RowLineOf(file, Head(titles)) \o LineEnd(file) \o LineEnd(file)
         \o RowsTextOf(file, Tail(titles))
TextOf(file) ==
  IF file.blank THEN (IF file.decorated THEN <<" ", NewLine, NewLine>> ELSE <<>>)
  ELSE HeaderLineOf(file) \o LineEnd(file) \o RowsTextOf(file, file.titles)
CsvTitles == {<<>>, <<"a", Comma, Quote, "b">>}
FullRows == [n \in 1..MaxCsvRows |-> <<"a">>]
CsvFile(blank, drop, style, titles) ==
  [blank |-> blank, drop |-> drop, reversed |-> style, decorated |-> style,
   titles |-> titles]
CsvFiles ==
  {CsvFile(FALSE, drop, style, titles) :
     drop \in DropSets \ {{}}, style \in BOOLEAN, titles \in {<<>>, FullRows}}
    \cup {CsvFile(FALSE, {}, style, titles) :
             style \in BOOLEAN,
             titles \in UNION {[1..n -> CsvTitles] : n \in 0..MaxCsvRows}}
    \cup {CsvFile(TRUE, {}, style, <<>>) : style \in BOOLEAN}

\* parseCsvFile(file): the text is read and parsed, every row's product is
\* handed to addToQueue, and the outcome is logged
Parsed == {[file |-> file, out |-> parseCsvText(TextOf(file))] : file \in CsvFiles}
importFile(file) ==
  /\ LET r == (CHOOSE p \in Parsed : p.file = file).out
     IN /\ csv' = [op |-> "file", out |-> r]
        /\ parseCsvRun(r.header, r.missing, r.products)
  /\ UNCHANGED api

NextCsv ==
  \/ \E file \in CsvFiles : importFile(file)
  \/ runAgent
  \/ stopAgent
  \/ \E i \in DOMAIN calls, o \in Outcomes : complete(i, o)
  \/ \E i \in DOMAIN calls : timerFires(i)

SpecCsv == Init /\ [][NextCsv]_vars

(* ------------------------- one CSV line on its own ---------------------- *)
\* The lines read: one or two cells of up to MaxCellLen letters, commas and
\* quotes, written with every cell quoted or with the cells quoted that
\* hold a comma or a quote; and the two lines the documentation gives.
CellContents == UNION {[1..n -> {"a", Comma, Quote}] : n \in 0..MaxCellLen}
NeedsQuotes(str) == \E n \in 1..Len(str) : str[n] \in {Comma, Quote}
WriteCell(str, always) ==
  IF always \/ NeedsQuotes(str) THEN QuotedField(str) ELSE str
WriteLine(cells, always) ==
  JoinChars([n \in 1..Len(cells) |-> WriteCell(cells[n], always)], Comma)
WireLine == <<"W", "i", "r", "e", Comma, Quote, "1", "6", " ", "A", "W", "G", Comma, " ", "c", "o", "p", "p", "e", "r", Quote, Comma, "1", "0">>
WireCells == <<<<"W", "i", "r", "e">>,
               <<"1", "6", " ", "A", "W", "G", Comma, " ", "c", "o", "p", "p", "e", "r">>,
               <<"1", "0">>>>
HeSaidLine == <<Quote, "H", "e", " ", "s", "a", "i", "d", " ", Quote, Quote, "h", "i", Quote, Quote, Quote, Comma, "2">>
HeSaidCells == <<<<"H", "e", " ", "s", "a", "i", "d", " ", Quote, "h", "i", Quote>>,
                 <<"2">>>>
CsvLines ==
  {[cells |-> cells, line |-> WriteLine(cells, always)] :
     cells \in {<<c>> : c \in CellContents}
                 \cup {<<c, d>> : c \in CellContents, d \in CellContents},
     always \in BOOLEAN}
    \cup {[cells |-> WireCells, line |-> WireLine],
          [cells |-> HeSaidCells, line |-> HeSaidLine]}

\* lines 426-427: splitCsvLine(rowLine).map((value) => cleanCell(value))
readLine ==
  /\ csv.op = "line" /\ ~csv.done
  /\ csv' = [csv EXCEPT !.out = Map(splitCsvLine(csv.line), cleanCell),
                        !.done = TRUE]
  /\ UNCHANGED <<runnerVars, api>>

InitLine ==
  /\ RunnerInit /\ api = ApiIdle
  /\ csv \in {[op |-> "line", cells |-> l.cells, line |-> l.line,
               out |-> <<>>, done |-> FALSE] : l \in CsvLines}

NextLine == readLine

SpecLine == InitLine /\ [][NextLine]_vars

(* --------------------------- CSV round trip ----------------------------- *)
\* The drafts written: title, keywords, features and currency vary, the
\* other fields are fixed; one draft, or two with PlainDraft on either side.
Draft(title, keywords, features, currency) ==
  [title |-> title, category |-> <<"c">>, price |-> <<"1">>,
   currency |-> currency, unit |-> Unit, stock |-> <<"2">>,
   minOrderQty |-> <<"3">>, keywords |-> keywords, imageUrls |-> <<"u">>,
   shortDescription |-> <<"s">>, description |-> <<"d">>,
   features |-> features, packaging |-> <<"p">>, leadTime |-> <<"l">>]
Drafts ==
  {Draft(t, k, f, c) :
     t \in {<<"a">>, <<"a", Comma, "b">>, <<"a", Quote, "b">>,
            <<Quote, "a", Quote>>, <<"a", " ">>},
     k \in {<<>>, <<"k", Comma, "w">>, <<" ", "k">>},
     f \in {<<>>, <<"f">>, <<"f", NewLine, "g">>},
     c \in {INR, <<>>}}
PlainDraft == Draft(<<"b">>, <<"k">>, <<"f">>, INR)
DraftSeqs == {<<d>> : d \in Drafts}
               \cup {<<d, PlainDraft>> : d \in Drafts}
               \cup {<<PlainDraft, d>> : d \in Drafts}

\* the documented format: the header names in the documented order, one
\* line per draft, every field quoted with its quotes doubled
FieldsOf(d) ==
  <<d.title, d.category, d.price, d.currency, d.unit, d.stock, d.minOrderQty,
    d.keywords, d.imageUrls, d.shortDescription, d.description, d.features,
    d.packaging, d.leadTime>>
DraftLine(d) == JoinChars(Map(FieldsOf(d), QuotedField), Comma)
RECURSIVE DraftLines(_)
DraftLines(ds) ==
  IF ds = <<>> THEN <<>>
  ELSE DraftLine(Head(ds)) \o <<NewLine>> \o DraftLines(Tail(ds))
WriteCsv(ds) == JoinChars(expected, Comma) \o <<NewLine>> \o DraftLines(ds)

writeCsv ==
  /\ csv.op = "roundtrip" /\ csv.pc = "drafts"
  /\ csv' = [csv EXCEPT !.pc = "written", !.text = WriteCsv(csv.drafts)]
  /\ UNCHANGED <<runnerVars, api>>

\* parseCsvFile on the file written
importWritten ==
  /\ csv.op = "roundtrip" /\ csv.pc = "written"
  /\ LET r == parseCsvText(csv.text)
     IN /\ csv' = [csv EXCEPT !.pc = "imported", !.out = r]
        /\ parseCsvRun(r.header, r.missing, r.products)
  /\ UNCHANGED api

InitRoundTrip ==
  /\ RunnerInit /\ api = ApiIdle
  /\ csv \in {[op |-> "roundtrip", pc |-> "drafts", drafts |-> ds,
               text |-> <<>>, out |-> <<>>] : ds \in DraftSeqs}

NextRoundTrip == writeCsv \/ importWritten

SpecRoundTrip == InitRoundTrip /\ [][NextRoundTrip]_vars

(* ------------------------ CSV columns and rows -------------------------- *)
\* The tables imported.  A table has its columns in some order (column 15
\* is one the importer does not know), and rows that give every column a
\* cell; a row's line is cut short of its last cut cells.  A decorated
\* table has its header names written as in a decorated file, every cell
\* quoted, and its lines ended by a return and a newline.
Documented == [n \in 1..14 |-> n]
Rotate(xs, by) == SubSeq(xs, by + 1, Len(xs)) \o SubSeq(xs, 1, by)
ColumnOrders ==
  {Documented, Reverse(Documented), Rotate(Documented, 5),
   <<15>> \o Rotate(Reverse(Documented), 3)}
LetterCells == [k \in 1..14 |-> <<LowerCase[k]>>]
TitleCells ==
  [k \in 1..14 |-> IF k = 1 THEN <<"a", Comma, Quote, "b">> ELSE <<>>]
Kept(t, row) == Len(t.order) - row.cut
TableHeader(t) ==
  LET name(c) == IF c = 15 THEN <<"s", "k", "u">> ELSE expected[c]
  IN JoinChars([n \in 1..Len(t.order) |->
                  IF t.decorated THEN DecoratedName(name(t.order[n]))
                  ELSE name(t.order[n])], Comma)
TableRow(t, row) ==
  LET cell(c) == IF c = 15 THEN <<"x">> ELSE row.cells[c]
  IN JoinChars([n \in 1..Kept(t, row) |->
                  WriteCell(cell(t.order[n]), t.decorated)], Comma)
RECURSIVE TableRowsText(_, _)
TableRowsText(t, rows) ==
  IF rows = <<>> THEN <<>>
  ELSE TableRow(t, Head(rows)) \o LineEnd(t) \o TableRowsText(t, Tail(rows))
TableText(t) == TableHeader(t) \o LineEnd(t) \o TableRowsText(t, t.rows)

\* parseCsvFile on the text of the table
importTable ==
  /\ csv.op = "table" /\ ~csv.done
  /\ LET r == parseCsvText(TableText(csv.table))
     IN /\ csv' = [csv EXCEPT !.out = r, !.done = TRUE]
        /\ parseCsvRun(r.header, r.missing, r.products)
  /\ UNCHANGED api

InitColumns ==
  /\ RunnerInit /\ api = ApiIdle
  /\ csv \in {[op |-> "table", table |-> t, out |-> <<>>, done |-> FALSE] :
                t \in [order : ColumnOrders, decorated : BOOLEAN,
                       rows : UNION {[1..n -> [cells : {LetterCells, TitleCells},
                                               cut : {0, 7, 12}]] :
                                       n \in 0..MaxCsvRows}]}

SpecColumns == InitColumns /\ [][importTable]_vars

(* --------------------------- normalizeProduct --------------------------- *)
\* The payloads normalized: one of features, imageUrls and keywords is any
\* text of up to MaxRawLen letters, blanks, commas and newlines, the other
\* two hold a comma and a newline each, and the title ends in a blank.
ListFields == {"features", "imageUrls", "keywords"}
Payload(field, raw) ==
  LET mixed == <<"x", Comma, " ", "y", NewLine, "z">>
  IN [[Draft(<<"a", " ">>, mixed, mixed, INR)
         EXCEPT !.imageUrls = mixed] EXCEPT ![field] = raw]

\* line 279: product: normalizeProduct(next.payload)
normalizePayload ==
  /\ csv.op = "normalize" /\ ~csv.done
  /\ csv' = [csv EXCEPT !.out = normalizeProduct(csv.payload), !.done = TRUE]
  /\ UNCHANGED <<runnerVars, api>>

InitNormalize ==
  /\ RunnerInit /\ api = ApiIdle
  /\ csv \in {[op |-> "normalize", payload |-> Payload(field, raw),
               out |-> <<>>, done |-> FALSE] :
                field \in ListFields,
                raw \in UNION {[1..n -> {"a", " ", Comma, NewLine}] :
                                 n \in 0..MaxRawLen}}

SpecNormalize == InitNormalize /\ [][normalizePayload]_vars

(* ---------------------------- activity log ------------------------------ *)
\* The log as the list setLogs keeps, and the display made of it.
\* logs.slice(-50)
LogWindow == 50

\* sort((a, b) => b.timestamp - a.timestamp): Array.prototype.sort is
\* stable, so entries of equal timestamp keep their order.  The last entry
\* x of xs is put into the sorted entries before it, after those it does
\* not come before.
RECURSIVE SortByTimestampDesc(_)
SortByTimestampDesc(xs) ==
  IF xs = <<>> THEN <<>>
  ELSE LET sorted == SortByTimestampDesc(SubSeq(xs, 1, Len(xs) - 1))
           x == xs[Len(xs)]
           k == Cardinality({n \in DOMAIN sorted :
                               sorted[n].timestamp >= x.timestamp})
       IN CASE Len(sorted) >= 0 ->
            SubSeq(sorted, 1, k) \o <<x>> \o SubSeq(sorted, k + 1, Len(sorted))

\* lines 142-145
filteredLogs ==
  SortByTimestampDesc(IF Len(logs) <= LogWindow THEN logs
                      ELSE SubSeq(logs, Len(logs) - LogWindow + 1, Len(logs)))

\* Date.now() at an append: the clock does not run backwards, and an append
\* may read the value the append before it read
LastTimestamp == IF logs = <<>> THEN 0 ELSE logs[Len(logs)].timestamp
SameMs ==
  Cardinality({n \in 2..Len(logs) : logs[n].timestamp = logs[n - 1].timestamp})

\* appendLog(entry), lines 147-156: setLogs(prev => [...prev, {id:
\* makeId(), timestamp: Date.now(), ...entry}])
setLogs(entry, now) ==
  /\ Len(logs) < MaxAppends
  /\ now = LastTimestamp => logs # <<>> /\ SameMs < MaxSameMs
  /\ logs' = Append(logs, [id |-> Len(logs) + 1, timestamp |-> now] @@ entry)
  /\ UNCHANGED <<settings, draft, queue, processing, activeProductId,
                 queueRef, processingRef, activeProductRef, calls, timers,
                 nextId, phase, pause, stoppedCalls>>
  /\ UNCHANGED pureVars

InitLog ==
  /\ settings = defaultSettings
  /\ draft = initialDraft
  /\ queue = <<>>
  /\ processing = FALSE
  /\ activeProductId = NoId
  /\ logs = <<>>
  /\ queueRef = <<>>
  /\ processingRef = FALSE
  /\ activeProductRef = NoId
  /\ calls = <<>>
  /\ timers = {}
  /\ nextId = 1
  /\ phase = "enq"
  /\ pause = [on |-> FALSE, auto |-> FALSE, n |-> 0, ids |-> {}]
  /\ stoppedCalls = {}
  /\ csv = CsvIdle /\ api = ApiIdle

NextLog ==
  \E now \in {LastTimestamp, LastTimestamp + 1} \ {0} :
    setLogs(Entry("info", "Agent paused", NoId), now)

SpecLog == InitLog /\ [][NextLog]_vars

(* -------------------- POST /api/indiamart (web/README.md) --------------- *)
\* POST from its first line to the response it returns or to the await of
\* fetch (lines 107-175)
BeforeFetch(req) ==
  IF ~req.json
    THEN [pc |-> "responded",
          resp |-> Respond(400, [error |-> "Invalid JSON payload received."])]
  ELSE IF ~Has(req.body, "product")
    THEN [pc |-> "responded",
          resp |-> Respond(400, [error |-> "Product payload not provided."])]
  ELSE
    LET product == req.body.product
        missing == missingFields(product)
        ns == normalizedSettings(req.body)
        preparedPayload == buildIndiaMartPayload(product, ns)
    IN IF Len(missing) > 0
         THEN [pc |-> "responded",
               resp |-> Respond(400, [error |-> "Missing required product fields: "
                                                   \o Join(missing, ", ")])]
       ELSE IF IsSimulate(ns)
         THEN [pc |-> "responded",
               resp |-> Respond(200, [status |-> "simulated",
                                      payload |-> preparedPayload])]
       ELSE IF Falsy(ns, "apiKey")
         THEN [pc |-> "responded",
               resp |-> Respond(400, [error |-> "API key is required in live mode."])]
       ELSE IF Falsy(ns, "sellerId")
         THEN [pc |-> "responded",
               resp |-> Respond(400, [error |-> "Seller ID is required in live mode."])]
       ELSE [pc |-> "fetch",
             call |-> [endpoint |-> IF Falsy(ns, "baseUrl") THEN DefaultEndpoint
                                    ELSE ns.baseUrl,
                       authtoken |-> ns.apiKey,
                       body |-> preparedPayload]]

\* response.ok
Ok(status) == status \in 200..299

\* lines 176-206, from the moment the awaited fetch settles with answer r;
\* response.json() throws on a text that does not parse, inside the try
JsonErrorMessage == "Unexpected end of JSON input"
AfterFetch(r) ==
  IF r.kind = "failure" THEN Respond(504, [error |-> r.message])
  ELSE IF r.jsonType /\ ~r.parses THEN Respond(504, [error |-> JsonErrorMessage])
  ELSE LET responsePayload == IF r.jsonType THEN [json |-> r.text]
                              ELSE [text |-> r.text]
       IN IF ~Ok(r.status)
            THEN Respond(502, [error |-> "IndiaMART API returned an error.",
                               status |-> r.status,
                               response |-> responsePayload])
          ELSE Respond(200, [status |-> "success", response |-> responsePayload])

POST ==
  /\ api.pc = "request"
  /\ LET b == BeforeFetch(api.req)
     IN api' = IF b.pc = "responded"
               THEN [api EXCEPT !.pc = "responded", !.resp = b.resp]
               ELSE [api EXCEPT !.pc = "fetch", !.sent = Append(@, b.call)]
  /\ UNCHANGED <<runnerVars, csv>>

fetchSettles(r) ==
  /\ api.pc = "fetch"
  /\ api' = [api EXCEPT !.pc = "responded", !.remote = Append(@, r),
                        !.resp = AfterFetch(r)]
  /\ UNCHANGED <<runnerVars, csv>>

InitApi ==
  /\ RunnerInit /\ csv = CsvIdle
  /\ api \in {[ApiIdle EXCEPT !.pc = "request", !.req = req] : req \in Requests}

NextApi ==
  \/ POST
  \/ \E r \in RemoteAnswers : fetchSettles(r)

SpecApi == InitApi /\ [][NextApi]_vars

TypeOK ==
  /\ settings \in [mode : Modes, autoStart : BOOLEAN]
  /\ draft \in [title : Titles, category : Categories]
  /\ processing \in BOOLEAN
  /\ activeProductId \in 0..MaxItems
  /\ queueRef = queue /\ processingRef = processing
  /\ activeProductRef = activeProductId
  /\ nextId \in 1..MaxItems + 1
  /\ timers \subseteq DOMAIN calls

(* ------------------------------ claims --------------------------------- *)
Count(l, level, headline, id) == CopiesIn(Entry(level, headline, id), l)
TerminalCount(l, id) ==
  Count(l, "success", "Uploaded", id) + Count(l, "error", "Failed", id)
SettledCount(cs, id) ==
  Cardinality({i \in DOMAIN cs : cs[i].id = id /\ cs[i].st = "settled"})
QueueIds(q) == {q[k].id : k \in DOMAIN q}
Quiescent == queue = <<>> /\ Pending = {}

\* C1: at every instant at most one upload dispatch is outstanding.
C1_AtMostOneOutstanding == Cardinality(Pending) <= 1

\* C2: after N >= 1 enqueues followed by a start(), with no stop, once every
\* dispatch has completed and the queue is empty, exactly one terminal log
\* entry (Uploaded or Failed) exists for each of the N enqueued items.
C2_OneTerminalPerItem ==
  (phase = "started" /\ nextId > 1 /\ Quiescent)
    => \A id \in 1..(nextId - 1) : TerminalCount(logs, id) = 1

\* C3: items are dispatched in the order they were enqueued (ids are handed
\* out in enqueue order): the ids of the calls never decrease, and an item
\* is dispatched only when every item enqueued before it has left the queue.
C3_DispatchInEnqueueOrder ==
  /\ \A i, j \in DOMAIN calls : i < j => calls[i].id <= calls[j].id
  /\ \A i \in DOMAIN calls : \A k \in DOMAIN queue : calls[i].id <= queue[k].id
C3_Witness ==
  \E i, j \in DOMAIN calls :
    /\ i < j /\ calls[i].id < calls[j].id
    /\ calls[i].st = "settled" /\ calls[j].st = "pending"

\* C4: every item is dispatched at most once, and once its dispatch has
\* completed it is not in the queue.
C4_DispatchedAtMostOnce ==
  /\ \A i, j \in DOMAIN calls : calls[i].id = calls[j].id => i = j
  /\ \A i \in DOMAIN calls : calls[i].st = "settled" => calls[i].id \notin QueueIds(queue)

\* C5: a call in flight at a stop() still gets its terminal log entry when it
\* completes, and no other item is dispatched until start() is called again.
StoppedCallsLogged ==
  \A i \in stoppedCalls :
    TerminalCount(logs, calls[i].id) = SettledCount(calls, calls[i].id)
NoOtherDispatchSincePause ==
  \A j \in (pause.n + 1)..Len(calls) : calls[j].id \in pause.ids
C5_StopThenDrain ==
  /\ StoppedCallsLogged
  /\ pause.on => NoOtherDispatchSincePause
\* C5 as amended: ... until the runner is set Running again, by start() or by
\* an enqueue made while autoStart is on.
C5_StopThenDrainAmended ==
  /\ StoppedCallsLogged
  /\ (pause.on /\ ~pause.auto) => NoOtherDispatchSincePause
C5_Witness ==
  /\ pause.on /\ ~pause.auto
  /\ \E i \in stoppedCalls : calls[i].st = "settled"
                             /\ TerminalCount(logs, calls[i].id) > 0
  /\ queue # <<>>

\* C6: when a dispatch fails, an error entry for its item is appended, a
\* Running runner stays Running, and the item then at the head of the queue,
\* if any, is dispatched.
C6_FailureContinues ==
  [][\A i \in DOMAIN calls : \A o \in {"rejected", "throws"} :
       complete(i, o) =>
         /\ Count(logs', "error", "Failed", calls[i].id)
              = Count(logs, "error", "Failed", calls[i].id) + 1
         /\ processing => processing'
         /\ (processing /\ queue' # <<>>) =>
              /\ Len(calls') > Len(calls)
              /\ calls'[Len(calls')] = [id |-> Head(queue').id,
                                        mode |-> settings.mode, st |-> "pending"]]_vars
C6_Witness ==
  /\ \E i \in DOMAIN calls : calls[i].st = "settled"
        /\ Count(logs, "error", "Failed", calls[i].id) > 0
        /\ \E j \in Pending : j > i /\ calls[j].id > calls[i].id
  /\ processing

\* C7: every dispatch produces exactly one terminal entry, when it completes:
\* success-level if the response was OK and error-level otherwise.
C7_OneTerminalPerDispatch ==
  /\ [](\A id \in 1..MaxItems + 1 :
          /\ TerminalCount(logs, id) = SettledCount(calls, id)
          /\ Count(logs, "error", "Uploaded", id) = 0
          /\ Count(logs, "success", "Failed", id) = 0)
  /\ [][\A i \in DOMAIN calls : \A o \in Outcomes :
          complete(i, o) =>
            LET id == calls[i].id
                ok == IF o = "ok" THEN 1 ELSE 0
            IN /\ Count(logs', "success", "Uploaded", id)
                    = Count(logs, "success", "Uploaded", id) + ok
               /\ Count(logs', "error", "Failed", id)
                    = Count(logs, "error", "Failed", id) + (1 - ok)]_vars
C7_Witness ==
  \E i \in stoppedCalls : \E j \in DOMAIN calls :
    /\ calls[i].st = "settled" /\ calls[j].st = "settled"
    /\ Count(logs, "success", "Uploaded", calls[i].id) > 0
    /\ Count(logs, "error", "Failed", calls[j].id) > 0

\* C8: every item in the queue has a non-empty title.
C8_QueuedTitlesNonEmpty == \A k \in DOMAIN queue : queue[k].title # ""

\* C9: a manual enqueue with an empty title appends exactly one error entry
\* and leaves the queue, the runner state, activeProductId and the draft
\* unchanged.
C9_EmptyTitleRejected ==
  [][(handleAddDraftToQueue /\ draft.title = "") =>
       /\ logs' = logs (+) SetToBag({Entry("error", "Missing product name", NoId)})
       /\ UNCHANGED <<queue, processing, activeProductId, draft, calls, timers>>]_vars
C9_Witness ==
  /\ Count(logs, "error", "Missing product name", NoId) = 1
  /\ draft = [title |-> "", category |-> "c"]
  /\ processing /\ queue # <<>>

\* C10: start() changes nothing when the runner is Running; when Idle with an
\* empty queue it appends one info entry and stays Idle; when Idle with a
\* non-empty queue it makes the runner Running and leaves the queue as is.
C10_Start ==
  [][runAgent =>
       /\ processing =>
            UNCHANGED <<queue, processing, activeProductId, logs, calls, timers,
                        settings, draft>>
       /\ (~processing /\ queue = <<>>) =>
            /\ logs' = logs (+) SetToBag({Entry("info", "Queue empty", NoId)})
            /\ UNCHANGED <<queue, processing, activeProductId, calls, timers>>
       /\ (~processing /\ queue # <<>>) =>
            /\ processing'
            /\ queue' = queue]_vars
C10_Witness ==
  /\ phase = "started" /\ processing
  /\ Len(calls) = 1 /\ Pending = {1} /\ timers = {}
  /\ Len(queue) = 2 /\ activeProductId = queue[1].id

\* C11: stop(), from any state, leaves the runner Idle with no active item,
\* appends exactly one "Agent paused" info entry and nothing else, and leaves
\* the queue as it was, the item of a call in flight included.
C11_StopFrame ==
  [][stopAgent =>
       /\ ~processing' /\ ~processingRef'
       /\ activeProductId' = NoId /\ activeProductRef' = NoId
       /\ logs' = logs (+) SetToBag({Entry("info", "Agent paused", NoId)})
       /\ queue' = queue
       /\ calls' = calls]_vars
C11_Witness ==
  /\ pause.on /\ pause.n = Len(calls)
  /\ ~processing /\ activeProductId = NoId
  /\ Count(logs, "info", "Agent paused", NoId) = 1
  /\ \E i \in Pending : calls[i].id = Head(queue).id
  /\ Len(queue) = 2

ReqProduct == api.req.body.product
ReqSettings == OrElse(api.req.body, "settings", <<>>)
HasRecord == api.req.json /\ Has(api.req.body, "product")
NonEmpty(o, key) == key \in DOMAIN o /\ o[key] # ""
Empty(o, key) == key \notin DOMAIN o \/ o[key] = ""
RequiredPresent ==
  /\ HasRecord
  /\ NonEmpty(ReqProduct, "title") /\ NonEmpty(ReqProduct, "description")
  /\ NonEmpty(ReqProduct, "shortDescription")
ModeIs(m) == Has(ReqSettings, "mode") /\ ReqSettings.mode = m
NoRemoteCall == api.pc # "fetch" /\ api.sent = <<>> /\ api.remote = <<>>
Responded == api.pc = "responded"

\* C13: a request in simulate mode whose record has title, description and
\* shortDescription non-empty is answered 200 with status "simulated" and a
\* payload whose PRODUCT_NAME is the record's title, and no remote call is
\* ever issued for it.
C13_Simulate ==
  (RequiredPresent /\ ModeIs("simulate")) =>
    /\ NoRemoteCall
    /\ Responded =>
         /\ api.resp.status = 200
         /\ api.resp.body.status = "simulated"
         /\ api.resp.body.payload.PRODUCT_NAME = ReqProduct.title
C13_Witness ==
  /\ RequiredPresent /\ ModeIs("simulate") /\ Responded
  /\ Empty(ReqSettings, "apiKey")
  /\ api.resp.status = 200

CredentialErrors == {"API key is required in live mode.",
                     "Seller ID is required in live mode."}
MissingCredentials ==
  /\ NoRemoteCall
  /\ Responded => /\ api.resp.status = 400
                  /\ api.resp.body.error \in CredentialErrors

\* C14: a request in live mode with an empty apiKey or an empty sellerId is
\* answered 400 with a missing-credentials error, and no remote call is
\* issued for it.
C14_LiveNoCredentials ==
  (HasRecord /\ ModeIs("live")
     /\ (Empty(ReqSettings, "apiKey") \/ Empty(ReqSettings, "sellerId")))
    => MissingCredentials
\* C14 as amended: ... a request in live mode whose record has title,
\* description and shortDescription non-empty ...
C14_LiveNoCredentialsAmended ==
  (RequiredPresent /\ ModeIs("live")
     /\ (Empty(ReqSettings, "apiKey") \/ Empty(ReqSettings, "sellerId")))
    => MissingCredentials
C14_Witness ==
  /\ RequiredPresent /\ ModeIs("live") /\ Responded
  /\ NonEmpty(ReqSettings, "apiKey") /\ Empty(ReqSettings, "sellerId")
  /\ api.resp.status = 400

\* the names of the fields of MissingSet, as the error message lists them
MissingSet == {f \in {"title", "description", "shortDescription"} :
                 Empty(ReqProduct, f)}
ExpectedNames ==
  CASE MissingSet = {"title"} -> "title"
    [] MissingSet = {"description"} -> "description"
    [] MissingSet = {"shortDescription"} -> "shortDescription"
    [] MissingSet = {"title", "description"} -> "title, description"
    [] MissingSet = {"title", "shortDescription"} -> "title, shortDescription"
    [] MissingSet = {"description", "shortDescription"}
         -> "description, shortDescription"
    [] OTHER -> "title, description, shortDescription"

\* C15: in either mode, a request whose record lacks title, description or
\* shortDescription, or has it empty, is answered 400 with an error that
\* names exactly the missing fields, before any payload is returned or any
\* remote call issued.
C15_MissingFields ==
  (HasRecord /\ MissingSet # {}) =>
    /\ NoRemoteCall
    /\ Responded =>
         /\ api.resp.status = 400
         /\ DOMAIN api.resp.body = {"error"}
         /\ api.resp.body.error = "Missing required product fields: " \o ExpectedNames
C15_Witness ==
  /\ HasRecord /\ Responded /\ ModeIs("live")
  /\ MissingSet = {"title", "shortDescription"}
  /\ Has(ReqProduct, "title") /\ ~Has(ReqProduct, "shortDescription")
  /\ api.resp.status = 400

\* the wire payload of the request, once built: the one returned in
\* simulate mode or the body of the remote call
HasPayload ==
  \/ api.sent # <<>>
  \/ Responded /\ api.resp.status = 200 /\ api.remote = <<>>
WirePayload ==
  IF api.sent # <<>> THEN api.sent[1].body ELSE api.resp.body.payload
RECURSIVE JoinedUpTo(_, _, _)
JoinedUpTo(xs, sep, n) ==
  IF n = 0 THEN ""
  ELSE IF n = 1 THEN xs[1]
  ELSE JoinedUpTo(xs, sep, n - 1) \o sep \o xs[n]
Joined(xs, sep) == JoinedUpTo(xs, sep, Len(xs))

\* C16: the wire payload has the record's first three imageUrls in IMAGE1,
\* IMAGE2, IMAGE3 in order, "" where the record has none, and no entry
\* beyond the third anywhere; KEY_FEATURES is the features joined with "|"
\* and KEYWORDS the keywords joined with ",", both in order.
C16_WirePayload ==
  HasPayload =>
    LET imgs == OrElse(ReqProduct, "imageUrls", <<>>)
        img(n) == IF n <= Len(imgs) THEN imgs[n] ELSE ""
    IN /\ WirePayload.IMAGE1 = img(1)
       /\ WirePayload.IMAGE2 = img(2)
       /\ WirePayload.IMAGE3 = img(3)
       /\ \A key \in DOMAIN WirePayload : \A n \in 4..Len(imgs) :
            WirePayload[key] # imgs[n]
       /\ WirePayload.KEY_FEATURES = Joined(OrElse(ReqProduct, "features", <<>>), "|")
       /\ WirePayload.KEYWORDS = Joined(OrElse(ReqProduct, "keywords", <<>>), ",")
C16_Witness ==
  /\ api.sent # <<>>
  /\ Has(ReqProduct, "imageUrls") /\ Len(ReqProduct.imageUrls) = 4
  /\ Has(ReqProduct, "features") /\ ReqProduct.features = <<"f", "g">>
  /\ Has(ReqProduct, "keywords") /\ ReqProduct.keywords = <<"w", "k">>
  /\ WirePayload.IMAGE3 = "u3" /\ WirePayload.KEY_FEATURES = "f|g"
  /\ WirePayload.KEYWORDS = "w,k"

\* C17: in live mode with credentials, a remote response that is not 2xx is
\* answered 502 with the remote status and the decoded body, a 2xx one 200
\* "success" with the decoded body, and a failed transport 504 with the
\* failure's message.
Decoded(r) == IF r.jsonType THEN [json |-> r.text] ELSE [text |-> r.text]
C17_RemoteOutcomes ==
  (Responded /\ api.remote # <<>>) =>
    LET r == api.remote[1]
    IN IF r.kind = "failure"
         THEN api.resp.status = 504 /\ api.resp.body.error = r.message
       ELSE IF r.status \in 200..299
         THEN /\ api.resp.status = 200
              /\ api.resp.body.status = "success"
              /\ api.resp.body.response = Decoded(r)
       ELSE /\ api.resp.status = 502
            /\ api.resp.body.status = r.status
            /\ api.resp.body.response = Decoded(r)

\* C18: importing a file whose header lacks required columns enqueues no
\* row, leaves the queue and the runner as they were, and appends one error
\* entry whose details name exactly the missing columns.
C18_HeaderMismatch ==
  [][\A file \in CsvFiles :
       (~file.blank /\ file.drop # {} /\ importFile(file)) =>
         /\ queue' = queue /\ nextId' = nextId
         /\ processing' = processing /\ activeProductId' = activeProductId
         /\ calls' = calls /\ timers' = timers
         /\ \E entry \in DOMAIN logs' :
              /\ logs' = logs (+) SetToBag({entry})
              /\ entry.level = "error" /\ entry.headline = "CSV headers mismatch"
              /\ {entry.details[n] : n \in DOMAIN entry.details}
                   = {expected[k] : k \in file.drop}
              /\ Len(entry.details) = Cardinality(file.drop)]_vars
C18_Witness ==
  /\ csv.op = "file" /\ csv.out.header = "missing"
  /\ csv.out.missing = <<expected[1], expected[14]>>
  /\ processing /\ Len(queue) = 2 /\ Pending # {}
  /\ BagCardinality(logs) >= 5

\* C19: reading one CSV line takes a comma inside a quoted field as part of
\* the field and two quotes in a row inside a quoted field as one quote:
\* the cells read from a line are the cells it was written from.  So the
\* line Wire,"16 AWG, copper",10 gives Wire / 16 AWG, copper / 10 and the
\* line "He said ""hi""",2 gives He said "hi" / 2.
C19_QuotedCells == (csv.op = "line" /\ csv.done) => csv.out = csv.cells
\* the two documented lines alone are read as documented
C19_Examples ==
  (csv.op = "line" /\ csv.done /\ csv.line \in {WireLine, HeSaidLine})
    => csv.out = csv.cells

\* C20: drafts written as CSV in the documented format and imported are
\* enqueued as drafts with the same normalized form (normalizeProduct),
\* field by field and in the same order.
C20_RoundTrip ==
  (csv.op = "roundtrip" /\ csv.pc = "imported") =>
    /\ csv.out.header = "ok"
    /\ Len(csv.out.products) = Len(csv.drafts)
    /\ Len(queue) = Len(csv.drafts)
    /\ \A k \in 1..Len(csv.drafts) :
         /\ normalizeProduct(csv.out.products[k]) = normalizeProduct(csv.drafts[k])
         /\ queue[k].title = csv.out.products[k].title
\* the drafts for which the round trip does hold
C20_RoundTripHolds ==
  /\ csv.op = "roundtrip" /\ csv.pc = "imported"
  /\ Len(csv.drafts) = 2
  /\ csv.drafts[1].title = <<"a", Quote, "b">>
  /\ csv.drafts[1].keywords = <<"k", Comma, "w">>
  /\ Len(csv.out.products) = 2
  /\ \A k \in 1..2 :
       normalizeProduct(csv.out.products[k]) = normalizeProduct(csv.drafts[k])

\* the cells a row's line gives the documented columns, by column name
ByName(t, row) ==
  [k \in 1..14 |->
     IF indexOf(t.order, k) <= Kept(t, row) THEN row.cells[k] ELSE <<>>]
\* the same table with its columns in the documented order
InDocumentedOrder(t) ==
  [order |-> Documented, decorated |-> FALSE,
   rows |-> [n \in 1..Len(t.rows) |-> [cells |-> ByName(t, t.rows[n]), cut |-> 0]]]
Titled(q) == [n \in 1..Len(q) |-> q[n].title]

FieldNames ==
  <<"title", "category", "price", "currency", "unit", "stock", "minOrderQty",
    "keywords", "imageUrls", "shortDescription", "description", "features",
    "packaging", "leadTime">>
Beyond(t, row, k) == indexOf(t.order, k) > Kept(t, row)
ShortRows(t) == {n \in 1..Len(t.rows) : t.rows[n].cut > 0}

\* C22: a data row with fewer cells than the header has columns is
\* enqueued all the same, and every draft field whose column lies beyond
\* the row's last cell is the empty string.
C22_ShortRow ==
  (csv.op = "table" /\ csv.done) =>
    /\ Len(csv.out.products) = Len(csv.table.rows)
    /\ Len(queue) = Len(csv.table.rows)
    /\ \A n \in ShortRows(csv.table), k \in 1..14 :
         Beyond(csv.table, csv.table.rows[n], k)
           => csv.out.products[n][FieldNames[k]] = <<>>
\* C22 as amended: currency and unit beyond the row's last cell are INR and
\* Unit, every other such field is the empty string, and the fields within
\* the row are its cells.
C22_ShortRowAmended ==
  (csv.op = "table" /\ csv.done) =>
    /\ Len(csv.out.products) = Len(csv.table.rows)
    /\ Len(queue) = Len(csv.table.rows)
    /\ \A n \in ShortRows(csv.table), k \in 1..14 :
         LET value == csv.out.products[n][FieldNames[k]]
             row == csv.table.rows[n]
         IN IF ~Beyond(csv.table, row, k)
              THEN value = (IF k = 4 /\ row.cells[k] = <<>> THEN INR
                            ELSE IF k = 5 /\ row.cells[k] = <<>> THEN Unit
                            ELSE row.cells[k])
            ELSE IF k = 4 THEN value = INR
            ELSE IF k = 5 THEN value = Unit
            ELSE value = <<>>
C22_Witness ==
  /\ csv.op = "table" /\ csv.done
  /\ csv.table.order = Documented
  /\ Len(csv.table.rows) = 2
  /\ csv.table.rows[1] = [cells |-> LetterCells, cut |-> 12]
  /\ csv.table.rows[2] = [cells |-> LetterCells, cut |-> 7]
  /\ Len(queue) = 2
  /\ csv.out.products[1].title = <<"a">>
  /\ csv.out.products[1].category = <<"b">>
  /\ csv.out.products[1].price = <<>>
  /\ csv.out.products[1].currency = INR
  /\ csv.out.products[2].minOrderQty = <<"g">>
  /\ csv.out.products[2].leadTime = <<>>

\* the pieces of str between its separators, each without the white space at
\* its ends: piece n runs from after the n-th separator up to the next one
SepsOf(str, sep) == {n \in 1..Len(str) : str[n] = sep}
PieceStart(str, sep, n) ==
  IF n = 0 THEN 1
  ELSE 1 + CHOOSE m \in SepsOf(str, sep) :
             Cardinality({j \in SepsOf(str, sep) : j <= m}) = n
PieceEnd(str, sep, n) ==
  IF n = Cardinality(SepsOf(str, sep)) THEN Len(str)
  ELSE PieceStart(str, sep, n + 1) - 2
Inked(str, lo, hi) == {j \in lo..hi : str[j] \notin WhiteSpace}
Least(ns) == CHOOSE n \in ns : \A m \in ns : n <= m
Greatest(ns) == CHOOSE n \in ns : \A m \in ns : n >= m
TrimmedPiece(str, sep, n) ==
  LET ink == Inked(str, PieceStart(str, sep, n), PieceEnd(str, sep, n))
  IN IF ink = {} THEN <<>> ELSE SubSeq(str, Least(ink), Greatest(ink))
InkedPieces(str, sep) ==
  {n \in 0..Cardinality(SepsOf(str, sep)) : TrimmedPiece(str, sep, n) # <<>>}
\* xs is the non-empty trimmed pieces of str, in their order
IsPiecesOf(xs, str, sep) ==
  /\ DOMAIN xs = 1..Cardinality(InkedPieces(str, sep))
  /\ \A n \in InkedPieces(str, sep) :
       xs[Cardinality({m \in InkedPieces(str, sep) : m <= n})]
         = TrimmedPiece(str, sep, n)

\* C23: normalizeProduct gives features and imageUrls as the pieces of the
\* raw field between newlines, and keywords as its pieces between commas,
\* each trimmed, the empty ones left out, in their order: every element is
\* non-empty and neither begins nor ends with white space, an empty or
\* blank field gives the empty sequence, and the other fields are copied.
C23_Normalize ==
  (csv.op = "normalize" /\ csv.done) =>
    /\ IsPiecesOf(csv.out.features, csv.payload.features, NewLine)
    /\ IsPiecesOf(csv.out.imageUrls, csv.payload.imageUrls, NewLine)
    /\ IsPiecesOf(csv.out.keywords, csv.payload.keywords, Comma)
    /\ \A field \in ListFields :
         /\ \A n \in DOMAIN csv.out[field] :
              LET x == csv.out[field][n]
              IN x # <<>> /\ x[1] \notin WhiteSpace /\ x[Len(x)] \notin WhiteSpace
         /\ (\A n \in DOMAIN csv.payload[field] :
               csv.payload[field][n] \in WhiteSpace) => csv.out[field] = <<>>
    /\ DOMAIN csv.out = DOMAIN csv.payload
    /\ \A field \in DOMAIN csv.payload \ ListFields :
         csv.out[field] = csv.payload[field]
C23_Witness ==
  /\ csv.op = "normalize" /\ csv.done
  /\ csv.payload.keywords = <<" ", "a", Comma, Comma>>
  /\ csv.out.keywords = <<<<"a">>>>
  /\ csv.out.features = <<<<"x", Comma, " ", "y">>, <<"z">>>>
  /\ csv.out.title = <<"a", " ">>

\* the min(LogWindow, n) entries appended last, the last one first
NewestFirst ==
  LET n == Len(logs)
      shown == IF n < LogWindow THEN n ELSE LogWindow
  IN [k \in 1..shown |-> logs[n - k + 1]]

\* C24: the log only grows at its end (no step removes, changes or moves
\* an entry), and the display holds exactly the min(50, n) entries appended
\* last of the n entries, the one appended later before the one appended
\* earlier.
C24_LogView ==
  /\ [][\E entry \in {logs'[Len(logs')]} : logs' = Append(logs, entry)]_vars
  /\ [](filteredLogs = NewestFirst)
\* the display does hold exactly the entries appended last, whatever
\* their order
C24_LastShown ==
  {filteredLogs[k] : k \in DOMAIN filteredLogs}
    = {NewestFirst[k] : k \in DOMAIN NewestFirst}
\* and it is newest first as long as no two entries share a timestamp
C24_DistinctTimestamps ==
  SameMs = 0 => filteredLogs = NewestFirst

\* C25: once a dispatch has completed, the next dispatch begins only after
\* the delay timer that completion scheduled has fired: no step issues a
\* call while the timer of a completed call is still pending.
C25_DelayBeforeNext ==
  [][Len(calls') > Len(calls) =>
       \A i \in DOMAIN calls' :
         calls'[i].st = "settled" => i \notin timers']_vars
\* the step that completes a call is itself one that issues the next call
C25_CompletionDispatches ==
  [][\A i \in DOMAIN calls, o \in Outcomes :
       complete(i, o) => Len(calls') = Len(calls)]_vars
\* a timer that fires issues no call when an item is left
C25_TimerIdle ==
  [][\A i \in DOMAIN calls :
       (timerFires(i) /\ queue # <<>>) => Len(calls') = Len(calls)]_vars

\* position of the item with this id in q
PlaceOf(q, id) == CHOOSE n \in DOMAIN q : q[n].id = id
\* q2 is q1 less the item with this id, the others in their order
IsLess(q2, q1, id) ==
  /\ QueueIds(q2) = QueueIds(q1) \ {id}
  /\ Len(q2) = Cardinality(QueueIds(q2))
  /\ \A n \in DOMAIN q2 : q2[n] = q1[PlaceOf(q1, q2[n].id)]
  /\ \A m, n \in DOMAIN q2 :
       m < n => PlaceOf(q1, q2[m].id) < PlaceOf(q1, q2[n].id)

\* C26: the completion of a dispatch takes out of the queue the item with
\* the dispatched id and nothing else: every other item, those enqueued
\* while the call was in flight included, stays, in the same order.
C26_RemoveById ==
  [][\A i \in DOMAIN calls, o \in Outcomes :
       complete(i, o) => IsLess(queue', queue, calls[i].id)]_vars
C26_Witness ==
  /\ Len(calls) = 2
  /\ calls[1].id = 1 /\ calls[2].id = 1
  /\ calls[1].st = "settled" /\ calls[2].st = "settled"
  /\ timers = {1, 2}
  /\ Len(queue) = 1 /\ queue[1].id = 2
  /\ ~processing

\* Running, nothing queued, no call in flight; the log of the model still
\* has room for an entry
RunningEmpty == processing /\ queue = <<>> /\ Pending = {}
LogRoom == BagCardinality(logs) < MaxLogs
QueueCompletes ==
  /\ ~processing'
  /\ logs' = logs (+) SetToBag({Entry("success", "Queue complete", NoId)})

\* C27: a runner that is Running with nothing queued and no call in flight
\* becomes Idle and appends a success entry 'Queue complete', given that
\* pending timers fire and neither an enqueue nor stop() comes first: it
\* does not stay Running with nothing to do, and the step that ends this is
\* the one that completes the queue, an enqueue, or stop().
C27_QueueComplete ==
  /\ (RunningEmpty /\ LogRoom) ~> (~RunningEmpty \/ ~LogRoom)
  /\ [][(RunningEmpty /\ ~RunningEmpty') =>
          (QueueCompletes \/ nextId' > nextId \/ stopAgent)]_vars
C27_Witness ==
  /\ ~processing /\ queue = <<>> /\ Pending = {}
  /\ Len(calls) = 2 /\ calls[1].id = 1 /\ calls[2].id = 2
  /\ timers = {1}
  /\ Count(logs, "success", "Queue complete", NoId) = 1
  /\ Count(logs, "info", "Agent paused", NoId) = 0

\* the handler is handed a draft with a title: an enqueue that succeeds
Enqueues == handleAddDraftToQueue /\ draft.title # ""
EnqueueAppends ==
  /\ queue' = Append(queue, [id |-> nextId, title |-> draft.title])
  /\ Count(logs', "info", "Product queued", nextId) = 1
  /\ Count(logs, "info", "Product queued", nextId) = 0
  /\ \A id \in 1..MaxItems :
       id # nextId => Count(logs', "info", "Product queued", id)
                        = Count(logs, "info", "Product queued", id)
  /\ ~processing => (processing' <=> settings.autoStart)

\* C28: an enqueue that succeeds appends the item at the tail of the queue,
\* the items before it staying as they are, and appends one info entry
\* 'Product queued'; an Idle runner becomes Running exactly when autoStart
\* is on; with autoStart off, or the runner Running already, the runner's
\* state and activeProductId stay as they are.
C28_Enqueue ==
  [][Enqueues =>
       /\ EnqueueAppends
       /\ (~settings.autoStart \/ processing) =>
            /\ processing' = processing
            /\ activeProductId' = activeProductId]_vars
\* all of it holds of a runner that is Idle or has an active item
C28_EnqueueActive ==
  [][Enqueues =>
       /\ EnqueueAppends
       /\ (~settings.autoStart \/ processing) =>
            /\ processing' = processing
            /\ (~processing \/ activeProductId # NoId)
                 => activeProductId' = activeProductId]_vars

\* the active id is that of a queued item with a call in flight
ActiveIsDispatched ==
  activeProductId # NoId =>
    /\ activeProductId \in QueueIds(queue)
    /\ \E i \in Pending : calls[i].id = activeProductId
\* a Running runner's calls in flight are those of the active item
DispatchedIsActive ==
  processing => \A i \in Pending : calls[i].id = activeProductId

\* C29: whenever activeProductId is set it is the id of an item that is in
\* the queue and has a call in flight; and whenever the runner is Running
\* with a call in flight, activeProductId is the id of that call's item.
C29_ActiveItem == ActiveIsDispatched /\ DispatchedIsActive
\* its second half holds as long as no item has been dispatched twice
C29_SingleDispatch ==
  (\A i, j \in DOMAIN calls : calls[i].id = calls[j].id => i = j)
    => DispatchedIsActive

\* the step appends a success entry 'Queue complete'
QueueCompleteAppended ==
  Count(logs', "success", "Queue complete", NoId)
    > Count(logs, "success", "Queue complete", NoId)
OnePerTransition ==
  /\ Count(logs', "success", "Queue complete", NoId)
       = Count(logs, "success", "Queue complete", NoId) + 1
  /\ processing /\ ~processing'

\* C30: a success entry 'Queue complete' is appended only when the queue is
\* empty and no call is in flight, and once for the runner's step from
\* Running to Idle, however many delay timers are pending.
C30_QueueCompleteOnce ==
  [][QueueCompleteAppended =>
       /\ queue = <<>> /\ queue' = <<>>
       /\ Pending = {} /\ {i \in DOMAIN calls' : calls'[i].st = "pending"} = {}
       /\ OnePerTransition]_vars
\* it is appended with the queue empty, once for a step from Running to
\* Idle, and then the timers still pending append nothing
C30_EmptyQueueOnce ==
  [][/\ QueueCompleteAppended =>
          /\ queue = <<>> /\ queue' = <<>>
          /\ OnePerTransition
     /\ \A i \in DOMAIN calls :
          (timerFires(i) /\ ~processing) => UNCHANGED <<logs, processing>>]_vars
\* and with no call in flight as long as no item has been dispatched twice
C30_SingleDispatch ==
  [][(/\ QueueCompleteAppended
      /\ \A i, j \in DOMAIN calls : calls[i].id = calls[j].id => i = j)
       => Pending = {}]_vars

====
